---- MODULE Spec2Model ----
(***************************************************************************)
(* The Iris tutorial notebook create_your_own_dataset.ipynb as a state     *)
(* machine: load, permute and split the rows, write_db each subset into a  *)
(* minidb store, then read the training store back in batches.             *)
(*                                                                         *)
(* A float32 is represented by its 32-bit pattern (a natural number), a    *)
(* serialized record by its sequence of bytes, a numpy array by the        *)
(* sequence of its elements.  Sequences are 1-based, so example i of the   *)
(* code is element i+1 here; loop indices keep the code's 0-based values.  *)
(***************************************************************************)
EXTENDS Integers, Sequences, FiniteSets, Bags, TLC

----------------------------------------------------------------------------
(* Bounds of the model *)

\* rows of the training subset in the bounded runs (100 in the notebook)
TrainCount == 3
\* rows of the testing subset in the bounded runs (50 in the notebook)
TestCount == 1
\* batch_size of the reader in the bounded runs (16 in the notebook)
BatchSize == 2
\* how many times the RunNet cell is executed at most
MaxReads == 3
\* how many times it is executed at most in the full-size run: enough to
\* pass the end of the 100-record store
IrisReads == 8

(* Constants of the notebook *)

\* np.random.permutation(150)
IrisTotal == 150
\* features[:100], features[100:]
IrisTrain == 100
\* TensorProtosDBInput(..., batch_size=16)
IrisBatch == 16
\* usecols=(0, 1, 2, 3)
FeatureCount == 4

----------------------------------------------------------------------------
(* Record Encoder: TensorProtos built from numpy arrays and its wire form *)

RECURSIVE Flatten(_)
Flatten(ss) == IF ss = <<>> THEN <<>> ELSE Head(ss) \o Flatten(Tail(ss))

\* a row of the float32 feature matrix, features[i]
FloatArray(row) == [shape |-> <<Len(row)>>, dtype |-> "float32", data |-> row]

\* an element of the integer label vector, labels[i] (a 0-d scalar)
IntScalar(l) == [shape |-> <<>>, dtype |-> "int", data |-> <<l>>]

\* utils.NumpyArrayToCaffe2Tensor: dims, data_type and the typed data field
NumpyArrayToCaffe2Tensor(arr) ==
    IF arr.dtype = "float32"
    THEN [dims |-> arr.shape, data_type |-> "FLOAT",
          float_data |-> arr.data, int32_data |-> <<>>]
    ELSE [dims |-> arr.shape, data_type |-> "INT32",
          float_data |-> <<>>, int32_data |-> arr.data]

\* the label tensor first and the feature tensor second
TensorProtosSwapped(feature_row, label) ==
    << NumpyArrayToCaffe2Tensor(IntScalar(label)),
       NumpyArrayToCaffe2Tensor(FloatArray(feature_row)) >>

\* feature_and_label.protos.extend([features[i] tensor, labels[i] tensor])
TensorProtos(feature_row, label) ==
    << NumpyArrayToCaffe2Tensor(FloatArray(feature_row)),
       NumpyArrayToCaffe2Tensor(IntScalar(label)) >>

\* a varint cut to its low seven bits, written as one byte
VarintOneByte(n) == <<n % 128>>

\* protobuf base-128 varint of a natural number
RECURSIVE Varint(_)
Varint(n) == IF n < 128 THEN <<n>>
             ELSE <<(n % 128) + 128>> \o Varint(n \div 128)

\* the four bytes of a 32-bit pattern, least significant byte first
LE32(bits) == << bits % 256, (bits \div 256) % 256,
                 (bits \div 65536) % 256, (bits \div 16777216) % 256 >>

DataTypeTag(t) == IF t = "FLOAT" THEN 1 ELSE 2

\* one TensorProto on the wire: dims (field 1), data_type (field 2),
\* packed float_data (field 3), packed int32_data (field 4)
SerializeTensor(t) ==
    Flatten([k \in 1..Len(t.dims) |-> <<8>> \o Varint(t.dims[k])])
    \o <<16, DataTypeTag(t.data_type)>>
    \o (IF t.float_data = <<>> THEN <<>>
        ELSE <<26>> \o Varint(4 * Len(t.float_data))
             \o Flatten([k \in 1..Len(t.float_data) |-> LE32(t.float_data[k])]))
    \o (IF t.int32_data = <<>> THEN <<>>
        ELSE LET body == Flatten([k \in 1..Len(t.int32_data) |->
                                      Varint(t.int32_data[k])])
             IN  <<34>> \o Varint(Len(body)) \o body)

\* feature_and_label.SerializeToString(): each tensor as a length-delimited
\* field 1 of TensorProtos
SerializeToString(protos) ==
    Flatten([k \in 1..Len(protos) |->
                LET s == SerializeTensor(protos[k])
                IN  <<10>> \o Varint(Len(s)) \o s])

\* the value of the varint that starts at b[k], and how many bytes it takes;
\* ok is FALSE when the buffer ends inside it
RECURSIVE ReadVarint(_, _)
ReadVarint(b, k) ==
    IF k > Len(b) THEN [ok |-> FALSE, val |-> 0, len |-> 0]
    ELSE IF b[k] < 128 THEN [ok |-> TRUE, val |-> b[k], len |-> 1]
    ELSE LET r == ReadVarint(b, k + 1)
         IN  [ok |-> r.ok, val |-> (b[k] - 128) + 128 * r.val, len |-> r.len + 1]

FromLE32(b, k) == b[k] + 256 * b[k + 1] + 65536 * b[k + 2] + 16777216 * b[k + 3]

RECURSIVE ReadPackedVarints(_, _, _)
ReadPackedVarints(b, k, last) ==
    IF k > last THEN [ok |-> TRUE, vals |-> <<>>]
    ELSE LET v == ReadVarint(b, k)
         IN  IF ~v.ok \/ k + v.len - 1 > last THEN [ok |-> FALSE, vals |-> <<>>]
             ELSE LET r == ReadPackedVarints(b, k + v.len, last)
                  IN  [ok |-> r.ok, vals |-> <<v.val>> \o r.vals]

EmptyTensor == [ok |-> TRUE, dims |-> <<>>, data_type |-> "UNDEFINED",
                float_data |-> <<>>, int32_data |-> <<>>]

BadTensor == [EmptyTensor EXCEPT !.ok = FALSE]

\* the fields of one TensorProto held in b[k..last], added to t
RECURSIVE ParseTensor(_, _, _, _)
ParseTensor(b, k, last, t) ==
    IF k > last THEN t
    ELSE LET v == ReadVarint(b, k + 1)
             from == k + 1 + v.len
             upto == k + v.len + v.val
         IN  IF ~v.ok \/ from - 1 > last THEN BadTensor
             ELSE CASE b[k] = 8 ->
                         ParseTensor(b, from, last,
                                     [t EXCEPT !.dims = Append(@, v.val)])
                    [] b[k] = 16 ->
                         IF v.val \notin {1, 2} THEN BadTensor
                         ELSE ParseTensor(b, from, last,
                                  [t EXCEPT !.data_type =
                                       IF v.val = 1 THEN "FLOAT" ELSE "INT32"])
                    [] b[k] = 26 ->
                         IF upto > last \/ v.val % 4 # 0 THEN BadTensor
                         ELSE ParseTensor(b, upto + 1, last,
                                  [t EXCEPT !.float_data = @ \o
                                       [j \in 1..(v.val \div 4) |->
                                            FromLE32(b, from + 4 * (j - 1))]])
                    [] b[k] = 34 ->
                         LET p == ReadPackedVarints(b, from, upto)
                         IN  IF upto > last \/ ~p.ok THEN BadTensor
                             ELSE ParseTensor(b, upto + 1, last,
                                      [t EXCEPT !.int32_data = @ \o p.vals])
                    [] OTHER -> BadTensor

\* TensorProtos.ParseFromString: the tensors of the buffer from b[k] on
RECURSIVE ParseProtos(_, _)
ParseProtos(b, k) ==
    IF k > Len(b) THEN [ok |-> TRUE, protos |-> <<>>]
    ELSE LET v == ReadVarint(b, k + 1)
             from == k + 1 + v.len
             upto == k + v.len + v.val
         IN  IF b[k] # 10 \/ ~v.ok \/ upto > Len(b)
             THEN [ok |-> FALSE, protos |-> <<>>]
             ELSE LET t == ParseTensor(b, from, upto, EmptyTensor)
                      r == ParseProtos(b, upto + 1)
                  IN  [ok |-> t.ok /\ r.ok,
                       protos |-> <<[dims |-> t.dims, data_type |-> t.data_type,
                                     float_data |-> t.float_data,
                                     int32_data |-> t.int32_data]>> \o r.protos]

ParseFromString(b) == ParseProtos(b, 1)

\* an undecodable value passed on as a row of zeros with label 0
UndecodableExampleZeroFilled ==
    [ok |-> TRUE, features |-> [k \in 1..FeatureCount |-> 0], label |-> 0]

\* what the reader makes of a value it cannot decode: no example, the read
\* fails
UndecodableExample == [ok |-> FALSE, features |-> <<>>, label |-> 0]

\* the example held by a parsed TensorProtos: tensor 1 is the row of X,
\* tensor 2 the entry of Y
ExampleOf(p) ==
    IF p.ok /\ Len(p.protos) = 2
       /\ p.protos[1].data_type = "FLOAT" /\ p.protos[2].data_type = "INT32"
       /\ Len(p.protos[2].int32_data) = 1
    THEN [ok |-> TRUE, features |-> p.protos[1].float_data,
          label |-> p.protos[2].int32_data[1]]
    ELSE UndecodableExample

\* the example the reader takes out of one stored value
DecodeExample(value) == ExampleOf(ParseFromString(value))

----------------------------------------------------------------------------
(* The notebook's state *)

VARIABLES
    cfg,             \* the literals of the run: rows, split point, batch_size
    raw_data,        \* the rows of the downloaded text, already tokenised
    features,        \* the float32 feature matrix, a sequence of rows
    labels,          \* the integer label vector
    random_index,    \* np.random.permutation(...), 0-based row numbers
    train_features, train_labels, test_features, test_labels,
    pc,              \* the statement the notebook executes next
    call,            \* which write_db call is active: "train" or "test"
    db,              \* write_db's local db: the path of its handle, or NoDb
    transaction,     \* write_db's local transaction: open flag, pending puts
    i,               \* write_db's loop variable
    fs,              \* the files: path -> [exists, writable, data]
    wopen,           \* path -> a handle opened in write mode is live
    dbreader,        \* the blob "dbreader": open flag, path, cursor
    X, Y,            \* the blobs "X" and "Y" of the workspace
    reads,           \* how many times RunNet has run
    putlog,          \* history: every transaction.put, in order
    batches,         \* history: every batch RunNet produced, with positions
    returned,        \* history: the write_db calls that returned normally
    error,           \* the exception that ended the run, "" if none
    codec, example, buffer, decoded  \* the encoder exercised on its own

dataVars  == <<cfg, raw_data, features, labels, random_index,
               train_features, train_labels, test_features, test_labels>>
writeVars == <<call, db, transaction, i, fs, wopen, putlog, returned>>
readVars  == <<dbreader, X, Y, reads, batches>>
codecVars == <<codec, example, buffer, decoded>>
vars == <<dataVars, writeVars, readVars, codecVars, pc, error>>

TrainPath == "iris_train.minidb"
TestPath  == "iris_test.minidb"
Paths == {TrainPath, TestPath}
NoDb == "none"

\* the arguments of the two calls of write_db
PathOf(c) == IF c = "train" THEN TrainPath ELSE TestPath
\* the puts of the write_db call c
PutsOf(c) == SelectSeq(putlog, LAMBDA e : e.call = c)

FeaturesOf(c) == IF c = "train" THEN train_features ELSE test_features
LabelsOf(c) == IF c = "train" THEN train_labels ELSE test_labels

----------------------------------------------------------------------------
(* Inputs *)

\* three rows of iris.data, one per class, as float32 bit patterns:
\* 5.1,3.5,1.4,0.2,Iris-setosa / 5.5,2.5,4.0,1.3,Iris-versicolor /
\* 6.7,3.0,5.2,2.3,Iris-virginica
Catalogue ==
    << [f |-> <<1084437299, 1080033280, 1068708659, 1045220557>>,
        name |-> "Iris-setosa"],
       [f |-> <<1085276160, 1075838976, 1082130432, 1067869798>>,
        name |-> "Iris-versicolor"],
       [f |-> <<1087792742, 1077936128, 1084647014, 1075000115>>,
        name |-> "Iris-virginica"] >>

\* a row whose class name is not one of the three
UnknownRow == [f |-> <<1084437299, 1080033280, 1068708659, 1045220557>>,
               name |-> "Iris-unknown"]

\* datasets of n rows: the catalogue cycled from row k, so that equal rows
\* occur in one dataset, one dataset whose rows are all equal, and one whose
\* last row carries an unknown class name
RawDatasets(n) ==
    { [r \in 1..n |-> Catalogue[((r - 1 + k) % Len(Catalogue)) + 1]] :
          k \in 0..(Len(Catalogue) - 1) }
    \cup { [r \in 1..n |-> Catalogue[1]] }
    \cup { [r \in 1..n |-> IF r = n THEN UnknownRow
                           ELSE Catalogue[((r - 1) % Len(Catalogue)) + 1]] }

SmallCfg == [total |-> TrainCount + TestCount, train |-> TrainCount,
             batch |-> BatchSize, reads |-> MaxReads, perms |-> "all"]

IrisCfg == [total |-> IrisTotal, train |-> IrisTrain,
            batch |-> IrisBatch, reads |-> IrisReads, perms |-> "sample"]

\* the outcomes of np.random.permutation(n): every arrangement of 0..n-1;
\* for the full-size run three of them (identity, reversal, a rotation)
RandomPermutations(n, which) ==
    IF which = "all"
    THEN { p \in [1..n -> 0..(n - 1)] :
               \A a, b \in 1..n : a # b => p[a] # p[b] }
    ELSE { [k \in 1..n |-> k - 1],
           [k \in 1..n |-> n - k],
           [k \in 1..n |-> (k + (n \div 3)) % n] }

FloatSamples == {0, 1045220557, 1087792742, 2139095039}
LabelValues == {0, 1, 2, 300}

----------------------------------------------------------------------------
(* Initial states *)

CodecIdle ==
    /\ codec = "idle"
    /\ example = [features |-> <<>>, label |-> 0]
    /\ buffer = <<>>
    /\ decoded = [ok |-> FALSE, features |-> <<>>, label |-> 0]

NotebookStart ==
    /\ features = <<>> /\ labels = <<>> /\ random_index = <<>>
    /\ train_features = <<>> /\ train_labels = <<>>
    /\ test_features = <<>> /\ test_labels = <<>>
    /\ call = "train" /\ db = NoDb /\ i = 0
    /\ transaction = [open |-> FALSE, pending |-> <<>>]
    /\ wopen = [p \in Paths |-> FALSE]
    /\ dbreader = [open |-> FALSE, path |-> NoDb, cursor |-> 0]
    /\ X = <<>> /\ Y = <<>> /\ reads = 0
    /\ putlog = <<>> /\ batches = <<>> /\ returned = {}
    /\ error = ""

\* before cell 3: the text is downloaded, no store file exists yet; a path
\* may be one that cannot be written
InitWith(c) ==
    /\ cfg = c
    /\ raw_data \in RawDatasets(c.total)
    /\ fs \in [Paths -> [exists : {FALSE}, writable : BOOLEAN, data : {<<>>}]]
    /\ pc = "load"
    /\ NotebookStart
    /\ CodecIdle

Init == InitWith(SmallCfg)

InitIris == InitWith(IrisCfg)

----------------------------------------------------------------------------
(* Cell 3: parse the text into features and labels *)

\* the dictionary inside label_converter
LabelTable ==
    ("Iris-setosa" :> 0) @@ ("Iris-versicolor" :> 1) @@ ("Iris-virginica" :> 2)

\* a converter that falls back to class 0 for a name it does not know
label_converter_default(s) ==
    IF s \in DOMAIN LabelTable
    THEN [raised |-> FALSE, value |-> LabelTable[s]]
    ELSE [raised |-> FALSE, value |-> 0]

\* label_converter: the dictionary subscripted by the name; a name that is
\* not a key raises KeyError
label_converter(s) ==
    IF s \in DOMAIN LabelTable
    THEN [raised |-> FALSE, value |-> LabelTable[s]]
    ELSE [raised |-> TRUE, value |-> 0]

\* three columns instead of four
usecols_three == <<0, 1, 2>>

\* usecols=(0, 1, 2, 3): the columns of a row that make the feature vector
usecols == <<0, 1, 2, 3>>

\* the columns cols of one row of the text
Columns(row, cols) == [k \in 1..Len(cols) |-> row[cols[k] + 1]]

\* the converter applied to the label column of every row
ConvertedLabels(rows) == [r \in 1..Len(rows) |-> label_converter(rows[r].name)]

\* line 82 builds features; line 85 builds labels, or raises when the
\* converter raises on some row, and then labels is never assigned
LoadLabels(conv) ==
    IF \E r \in 1..Len(conv) : conv[r].raised
    THEN /\ pc' = "raised"
         /\ error' = "KeyError"
         /\ labels' = labels
    ELSE /\ pc' = "split"
         /\ error' = error
         /\ labels' = [r \in 1..Len(conv) |-> conv[r].value]

Load ==
    /\ pc = "load"
    /\ features' = [r \in 1..Len(raw_data) |-> Columns(raw_data[r].f, usecols)]
    /\ LoadLabels(ConvertedLabels(raw_data))
    /\ UNCHANGED <<cfg, raw_data, random_index, train_features, train_labels,
                   test_features, test_labels>>
    /\ UNCHANGED <<writeVars, readVars, codecVars>>

----------------------------------------------------------------------------
(* Cell 4: permute the rows and slice them into the two subsets *)

\* a[idx] with an integer index array: row idx[k] of a becomes row k
FancyIndex(a, idx) == [k \in 1..Len(idx) |-> a[idx[k] + 1]]

\* the 0-based positions a[lo:hi] selects from an array of n rows
SliceIndices(lo, hi, n) == { k \in 0..(n - 1) : lo <= k /\ k < hi }

\* the positions features[:100] takes
TrainIndices(n, split) == SliceIndices(0, split, n)

\* a test slice that starts one row early, overlapping the training slice
TestIndicesOverlap(n, split) == SliceIndices(split - 1, n, n)

\* the positions features[100:] takes
TestIndices(n, split) == SliceIndices(split, n, n)

\* the rows of a at a contiguous set of positions, in order
RowsAt(a, sel) ==
    IF sel = {} THEN <<>>
    ELSE LET first == CHOOSE k \in sel : \A m \in sel : k <= m
         IN  [k \in 1..Cardinality(sel) |-> a[first + k]]

\* labels left in file order while the features are permuted
ShuffledLabelsForgotten(l, idx) == l

\* labels = labels[random_index]
ShuffledLabels(l, idx) == FancyIndex(l, idx)

Split ==
    /\ pc = "split"
    /\ \E p \in RandomPermutations(cfg.total, cfg.perms) :
          LET f == FancyIndex(features, p)
              l == ShuffledLabels(labels, p)
          IN  /\ random_index' = p
              /\ features' = f
              /\ labels' = l
              /\ train_features' = RowsAt(f, TrainIndices(Len(f), cfg.train))
              /\ train_labels' = RowsAt(l, TrainIndices(Len(l), cfg.train))
              /\ test_features' = RowsAt(f, TestIndices(Len(f), cfg.train))
              /\ test_labels' = RowsAt(l, TestIndices(Len(l), cfg.train))
    /\ pc' = "write_db"
    /\ UNCHANGED <<cfg, raw_data, writeVars, readVars, codecVars, error>>

----------------------------------------------------------------------------
(* Cell 7: write_db *)

\* pieces of a Python string: literal text, a printf conversion such as
\* %03d, a str.format replacement field {}, or digits produced by formatting
Text(s) == [kind |-> "text", text |-> s, digits |-> <<>>]
Conversion(s) == [kind |-> "percent", text |-> s, digits |-> <<>>]
Field(s) == [kind |-> "brace", text |-> s, digits |-> <<>>]
Digits(d) == [kind |-> "digits", text |-> "", digits |-> d]

\* the string literal 'train_%03d'
KeyTemplate == << Text("train_"), Conversion("%03d") >>

RECURSIVE Decimal(_)
Decimal(n) == IF n < 10 THEN <<n>> ELSE Decimal(n \div 10) \o <<n % 10>>

\* n printed by %03d: decimal, zero-padded to three digits
ZeroPad3(n) == IF n < 10 THEN <<0, 0>> \o Decimal(n)
               ELSE IF n < 100 THEN <<0>> \o Decimal(n)
               ELSE Decimal(n)

\* template % arg: each printf conversion is replaced by the argument
PercentFormat(template, arg) ==
    [k \in 1..Len(template) |->
        IF template[k].kind = "percent" THEN Digits(ZeroPad3(arg))
        ELSE template[k]]

\* template.format(arg): each {} field is replaced by the argument; every
\* other piece, printf conversions included, is copied as it is
StrFormat(template, arg) ==
    [k \in 1..Len(template) |->
        IF template[k].kind = "brace" THEN Digits(Decimal(arg))
        ELSE template[k]]

\* the key of the put of loop index n: 'train_%03d'.format(i)
Key(n) == StrFormat(KeyTemplate, n)

\* a loop that takes every second example
NextIndexSkipping(n) == n + 2

\* for i in range(...): the index after n
NextIndex(n) == n + 1

\* a loop that stops one example early
RangeStopShort(f) == IF Len(f) = 0 THEN 0 ELSE Len(f) - 1

\* range(features.shape[0]): the loop runs for i = 0 .. shape[0] - 1
RangeStop(f) == Len(f)

\* core.C.create_db(db_type, db_name, Mode.write) on a file: the store is
\* created empty, or the call fails when the path cannot be written
CreateDbWrite(file) ==
    IF file.writable
    THEN [ok |-> TRUE, file |-> [exists |-> TRUE, writable |-> TRUE, data |-> <<>>]]
    ELSE [ok |-> FALSE, file |-> file]

\* an exception of create_db swallowed: the loop is entered all the same
WriteDbEntrySwallowed(opened) == "write_loop"

\* line 210 is not guarded: when create_db raises, the exception leaves
\* write_db and the cell before the loop is reached
WriteDbEntry(opened) == IF opened THEN "write_loop" ELSE "raised"

WriteDbOpen ==
    /\ pc = "write_db"
    /\ LET path == PathOf(call)
           r == CreateDbWrite(fs[path])
       IN  /\ fs' = [fs EXCEPT ![path] = r.file]
           /\ pc' = WriteDbEntry(r.ok)
           /\ IF r.ok
              THEN /\ db' = path
                   /\ wopen' = [wopen EXCEPT ![path] = TRUE]
                   /\ transaction' = [open |-> TRUE, pending |-> <<>>]
                   /\ error' = error
              ELSE /\ error' = "create_db"
                   /\ UNCHANGED <<db, wopen, transaction>>
    /\ i' = 0
    /\ UNCHANGED <<call, putlog, returned, dataVars, readVars, codecVars>>

\* the loop body, lines 213-219; i is the index of the next iteration
WriteDbPut ==
    /\ pc = "write_loop"
    /\ i < RangeStop(FeaturesOf(call))
    /\ LET feature_and_label ==
               TensorProtos(FeaturesOf(call)[i + 1], LabelsOf(call)[i + 1])
           entry == [key |-> Key(i),
                     value |-> SerializeToString(feature_and_label)]
       IN  /\ transaction' = [transaction EXCEPT !.pending = Append(@, entry)]
           /\ putlog' = Append(putlog, [call |-> call, i |-> i, key |-> entry.key,
                                        value |-> entry.value])
    /\ i' = NextIndex(i)
    /\ UNCHANGED <<call, db, fs, wopen, returned, pc, error,
                   dataVars, readVars, codecVars>>

\* a transaction that stays open after del
ReleasedTransactionStillOpen == [open |-> TRUE, pending |-> <<>>]

\* the transaction after del transaction: gone, nothing pending
ReleasedTransaction == [open |-> FALSE, pending |-> <<>>]

\* a transaction dropped without its puts reaching the file
DelTransactionLost(data, pending) == data

\* del transaction: the puts of the transaction are committed to the file
DelTransaction(data, pending) == data \o pending

WriteDbDelTransaction ==
    /\ pc = "write_loop"
    /\ i >= RangeStop(FeaturesOf(call))
    /\ fs' = [fs EXCEPT ![db].data = DelTransaction(@, transaction.pending)]
    /\ transaction' = ReleasedTransaction
    /\ pc' = "write_del_db"
    /\ UNCHANGED <<call, db, i, wopen, putlog, returned, error,
                   dataVars, readVars, codecVars>>

\* the handle kept alive after write_db
DelDbLeaked(handle_open) == handle_open

\* del db: the last reference goes, the handle is closed
DelDb(handle_open) == FALSE

\* line 222 and the return to the cell: line 225 follows line 224
WriteDbDelDb ==
    /\ pc = "write_del_db"
    /\ wopen' = [wopen EXCEPT ![db] = DelDb(@)]
    /\ db' = NoDb
    /\ returned' = returned \cup {call}
    /\ IF call = "train"
       THEN call' = "test" /\ pc' = "write_db"
       ELSE call' = call /\ pc' = "create_net"
    /\ UNCHANGED <<transaction, i, fs, putlog, error,
                   dataVars, readVars, codecVars>>

----------------------------------------------------------------------------
(* Cells 8-10: the reader net *)

\* a batch size one short of the configured one
batch_size_short == cfg.batch - 1

\* batch_size of the TensorProtosDBInput operator
batch_size == cfg.batch

\* the CreateDB operator of the net: opens the store for reading with the
\* cursor on the first record; a reader that is open keeps its place
CreateDB(rd, path, file) ==
    IF rd.open THEN rd
    ELSE [open |-> file.exists, path |-> path, cursor |-> 0]

\* a cursor that stays on the last record instead of starting over
NextCursorStuck(cursor, len) == IF cursor + 1 >= len THEN cursor ELSE cursor + 1

\* advance the cursor; past the last record it moves to the first
NextCursor(cursor, len) == IF cursor + 1 >= len THEN 0 ELSE cursor + 1

\* a reader that takes the records it returns out of the store
StoreAfterReadConsumed(data, pos) ==
    LET kept == SelectSeq([k \in 1..Len(data) |-> [at |-> k - 1, rec |-> data[k]]],
                          LAMBDA e : \A j \in 1..Len(pos) : pos[j] # e.at)
    IN  [k \in 1..Len(kept) |-> kept[k].rec]

\* the records of a store opened for reading after a batch was read at the
\* positions pos: the store is read, not consumed
StoreAfterRead(data, pos) == data

\* read n records from the cursor on, one at a time
RECURSIVE ReadRecords(_, _, _)
ReadRecords(data, cursor, n) ==
    IF n = 0 THEN [ok |-> TRUE, items |-> <<>>, cursor |-> cursor]
    ELSE IF cursor >= Len(data) THEN [ok |-> FALSE, items |-> <<>>, cursor |-> cursor]
    ELSE LET rest == ReadRecords(data, NextCursor(cursor, Len(data)), n - 1)
         IN  [ok |-> rest.ok,
              items |-> <<[pos |-> cursor, key |-> data[cursor + 1].key,
                           value |-> data[cursor + 1].value]>> \o rest.items,
              cursor |-> rest.cursor]

\* labels taken one record late: entry j of Y from the record of row j+1
BatchOfMisaligned(r, ex) ==
    [ok |-> r.ok /\ \A j \in 1..Len(ex) : ex[j].ok,
     X |-> [j \in 1..Len(ex) |-> ex[j].features],
     Y |-> [j \in 1..Len(ex) |-> ex[(j % Len(ex)) + 1].label],
     pos |-> [j \in 1..Len(ex) |-> r.items[j].pos],
     cursor |-> r.cursor]

\* the blobs made of the records read and of their decoded examples
BatchOf(r, ex) ==
    [ok |-> r.ok /\ \A j \in 1..Len(ex) : ex[j].ok,
     X |-> [j \in 1..Len(ex) |-> ex[j].features],
     Y |-> [j \in 1..Len(ex) |-> ex[j].label],
     pos |-> [j \in 1..Len(ex) |-> r.items[j].pos],
     cursor |-> r.cursor]

DecodeItems(r) == BatchOf(r, [j \in 1..Len(r.items) |-> DecodeExample(r.items[j].value)])

\* TensorProtosDBInput: batch_size records decoded into the rows of X and
\* the entries of Y
TensorProtosDBInput(data, cursor, n) == DecodeItems(ReadRecords(data, cursor, n))

\* net_proto is built and workspace.CreateNet instantiates it
CreateNet ==
    /\ pc = "create_net"
    /\ pc' = "run_net"
    /\ UNCHANGED <<dataVars, writeVars, readVars, codecVars, error>>

\* the effect of one run, given the reader after CreateDB and the output
\* of TensorProtosDBInput
RunOperators(rd, out) ==
    IF rd.open /\ out.ok
    THEN /\ dbreader' = [rd EXCEPT !.cursor = out.cursor]
         /\ X' = out.X
         /\ Y' = out.Y
         /\ batches' = Append(batches, [X |-> out.X, Y |-> out.Y, pos |-> out.pos])
         /\ reads' = reads + 1
         /\ fs' = [fs EXCEPT ![rd.path].data = StoreAfterRead(@, out.pos)]
         /\ UNCHANGED <<pc, error>>
    ELSE /\ pc' = "raised"
         /\ error' = "run_net"
         /\ dbreader' = rd
         /\ UNCHANGED <<X, Y, batches, reads, fs>>

RunFrom(rd) ==
    RunOperators(rd, TensorProtosDBInput(fs[rd.path].data, rd.cursor, batch_size))

\* workspace.RunNet: the operators of the net run in order
RunNet ==
    /\ pc = "run_net"
    /\ reads < cfg.reads
    /\ RunFrom(CreateDB(dbreader, TrainPath, fs[TrainPath]))
    /\ UNCHANGED <<call, db, transaction, i, wopen, putlog, returned>>
    /\ UNCHANGED <<dataVars, codecVars>>

----------------------------------------------------------------------------
(* The Record Encoder on its own: encode one example, decode the buffer *)

InitCodec ==
    /\ cfg = SmallCfg
    /\ raw_data = <<>>
    /\ fs = [p \in Paths |-> [exists |-> FALSE, writable |-> TRUE, data |-> <<>>]]
    /\ pc = "idle"
    /\ NotebookStart
    /\ codec = "input"
    /\ example \in [features : [1..FeatureCount -> FloatSamples],
                    label : LabelValues]
    /\ buffer = <<>>
    /\ decoded = [ok |-> FALSE, features |-> <<>>, label |-> 0]

CodecEncode ==
    /\ codec = "input"
    /\ buffer' = SerializeToString(TensorProtos(example.features, example.label))
    /\ codec' = "encoded"
    /\ UNCHANGED <<example, decoded, dataVars, writeVars, readVars, pc, error>>

CodecDecode ==
    /\ codec = "encoded"
    /\ decoded' = DecodeExample(buffer)
    /\ codec' = "decoded"
    /\ UNCHANGED <<example, buffer, dataVars, writeVars, readVars, pc, error>>

----------------------------------------------------------------------------
(* Faults: a damaged store file, a put that raises *)

\* a buffer cut after its first n bytes
Truncated(value, n) == SubSeq(value, 1, n)

\* the file of the training store, still as write_db left it, is damaged:
\* one record loses the tail of its value
Corrupt ==
    /\ pc \in {"create_net", "run_net"}
    /\ reads < cfg.reads
    /\ \A k \in 1..Len(fs[TrainPath].data) :
          fs[TrainPath].data[k].value = PutsOf("train")[k].value
    /\ \E k \in 1..Len(fs[TrainPath].data) :
          \E n \in { Len(fs[TrainPath].data[k].value) - 1,
                     Len(fs[TrainPath].data[k].value) \div 2 } :
              fs' = [fs EXCEPT ![TrainPath].data[k].value = Truncated(@, n)]
    /\ UNCHANGED <<call, db, transaction, i, wopen, putlog, returned>>
    /\ UNCHANGED <<dataVars, readVars, codecVars, pc, error>>

\* an iteration of the loop raises (the encoding of lines 213-216 or the put
\* of lines 217-219): write_db has no try/finally, so lines 221-222 do not
\* run.  db and transaction are locals of the frame the traceback refers to:
\* they stay alive as long as the traceback is kept, and are destroyed as by
\* del when it is dropped.
WriteDbPutFails ==
    /\ pc = "write_loop"
    /\ i < RangeStop(FeaturesOf(call))
    /\ pc' = "raised"
    /\ error' = "put"
    /\ \/ UNCHANGED <<db, transaction, wopen, fs>>
       \/ /\ fs' = [fs EXCEPT ![db].data = DelTransaction(@, transaction.pending)]
          /\ transaction' = ReleasedTransaction
          /\ wopen' = [wopen EXCEPT ![db] = DelDb(@)]
          /\ db' = NoDb
    /\ UNCHANGED <<call, i, putlog, returned, dataVars, readVars, codecVars>>

----------------------------------------------------------------------------
(* Specifications *)

Next ==
    \/ Load
    \/ Split
    \/ WriteDbOpen
    \/ WriteDbPut
    \/ WriteDbDelTransaction
    \/ WriteDbDelDb
    \/ CreateNet
    \/ RunNet

NextCodec ==
    \/ CodecEncode
    \/ CodecDecode

NextFaults ==
    \/ Next
    \/ Corrupt
    \/ WriteDbPutFails

\* the notebook with small subsets and every permutation
Spec == Init /\ [][Next]_vars

\* the notebook with its own sizes: 150 rows, 100 for training, batches of 16
SpecIris == InitIris /\ [][Next]_vars

\* the encoder and the decoder applied to every example of a bounded set
SpecCodec == InitCodec /\ [][NextCodec]_vars

\* the notebook with small subsets in an environment that fails: a record of
\* the store file damaged, an iteration of the write loop raising
FaultCfg == [SmallCfg EXCEPT !.perms = "sample"]
InitFaults == InitWith(FaultCfg)
SpecFaults == InitFaults /\ [][NextFaults]_vars

----------------------------------------------------------------------------
(* Vocabulary of the properties *)

CeilDiv(a, b) == (a + b - 1) \div b

Range(s) == { s[k] : k \in 1..Len(s) }

\* the multiset of the elements of a sequence
BagOfSeq(s) == [e \in Range(s) |-> Cardinality({ k \in 1..Len(s) : s[k] = e })]

\* the examples handed to the write_db call c, in order
Written(c) ==
    [k \in 1..Len(FeaturesOf(c)) |->
        [features |-> FeaturesOf(c)[k], label |-> LabelsOf(c)[k]]]

\* the examples of one batch, row j of X with entry j of Y
ExamplesOf(b) == [j \in 1..Len(b.X) |-> [features |-> b.X[j], label |-> b.Y[j]]]

\* everything the reader has returned so far, batch after batch
Stream == Flatten([b \in 1..Len(batches) |-> ExamplesOf(batches[b])])

\* the store positions of everything the reader has returned so far
StreamPos == Flatten([b \in 1..Len(batches) |-> batches[b].pos])

\* how many records the reader had returned before batch b
Before(b) == Len(Flatten([a \in 1..(b - 1) |-> batches[a].pos]))

WriteOpen(p) == wopen[p]
ReadOpen(p) == dbreader.open /\ dbreader.path = p
CallOf(p) == IF p = TrainPath THEN "train" ELSE "test"

----------------------------------------------------------------------------
(* C1 - write N examples, read them back in ceil(N/B) batches *)

\* C1: after ceil(N/B) reads of the store write_db filled from a fresh path,
\* the first N examples read (the part before any wrap-around) are N examples
\* whose multiset equals the multiset written, and inside every batch the
\* examples that precede the wrap appear in the order they were written.
C1_WriteThenReadAll ==
    (pc = "run_net" /\ reads = CeilDiv(Len(train_features), cfg.batch)) =>
        LET n == Len(train_features)
            got == SubSeq(Stream, 1, n)
        IN  /\ Len(Stream) >= n
            /\ Len(got) = n
            /\ BagOfSeq(got) = BagOfSeq(Written("train"))
            /\ \A b \in 1..Len(batches) :
                  \A j, k \in 1..Len(batches[b].pos) :
                      (j < k /\ Before(b) + k <= n) =>
                          /\ batches[b].pos[j] < batches[b].pos[k]
                          /\ ExamplesOf(batches[b])[j] =
                                 Written("train")[batches[b].pos[j] + 1]
                          /\ ExamplesOf(batches[b])[k] =
                                 Written("train")[batches[b].pos[k] + 1]

\* the pass is complete, the last batch went past the end of the store, and
\* the dataset holds two equal rows and two different ones
C1_Witness ==
    /\ pc = "run_net"
    /\ reads = CeilDiv(Len(train_features), cfg.batch)
    /\ Len(Stream) > Len(train_features)
    /\ \E j, k \in 1..Len(train_features) :
          j # k /\ Written("train")[j] = Written("train")[k]
    /\ \E j, k \in 1..Len(train_features) :
          Written("train")[j] # Written("train")[k]

----------------------------------------------------------------------------
(* C2 - keys derived from the ordinal position *)

\* C2: the put of loop index i uses the key "train_" followed by i as three
\* digits, so two different examples of one call have two different keys.
C2_KeysFromOrdinal ==
    /\ \A k \in 1..Len(putlog) :
          putlog[k].key = PercentFormat(KeyTemplate, putlog[k].i)
    /\ \A j, k \in 1..Len(putlog) :
          (putlog[j].call = putlog[k].call /\ putlog[j].i # putlog[k].i)
              => putlog[j].key # putlog[k].key

----------------------------------------------------------------------------
(* C3 - round trip of the Record Encoder *)

\* C3: decoding the bytes produced by encoding an example gives back the
\* same feature vector and the same label.
C3_RoundTrip ==
    codec = "decoded" =>
        /\ decoded.ok
        /\ decoded.features = example.features
        /\ decoded.label = example.label

\* an example whose floats differ byte by byte and whose label needs a
\* two-byte varint has been encoded and decoded
C3_Witness ==
    /\ codec = "decoded"
    /\ example.features[1] = 1087792742
    /\ example.features[2] = 0
    /\ example.label = 300
    /\ Len(buffer) > 0

----------------------------------------------------------------------------
(* C4 - the split partitions the permuted rows *)

\* cell 4 has run
AfterSplit == random_index # <<>>

\* C4: whatever the permutation, the training and the testing subset have
\* len(train) + len(test) = len(original), they take disjoint sets of
\* positions of the permuted collection, and every original row lands in
\* exactly one position of exactly one subset.
C4_SplitPartitions ==
    AfterSplit =>
        LET n == Len(raw_data)
            tr == TrainIndices(n, cfg.train)
            te == TestIndices(n, cfg.train)
        IN  /\ Len(train_features) + Len(test_features) = n
            /\ Len(train_labels) + Len(test_labels) = n
            /\ Len(train_features) = cfg.train
            /\ Len(train_features) = Cardinality(tr)
            /\ Len(test_features) = Cardinality(te)
            /\ tr \cap te = {}
            /\ tr \cup te = 0..(n - 1)
            /\ Len(random_index) = n
            /\ Range(random_index) = 0..(n - 1)
            /\ train_features \o test_features =
                   [k \in 1..n |-> raw_data[random_index[k] + 1].f]
            /\ train_labels \o test_labels =
                   [k \in 1..n |-> label_converter(raw_data[random_index[k] + 1].name).value]

\* a split under a permutation that moves rows across the split point, of a
\* dataset whose rows are not all equal
C4_Witness ==
    /\ AfterSplit
    /\ random_index[1] = Len(raw_data) - 1
    /\ random_index[Len(raw_data)] = 0
    /\ test_features # <<>>
    /\ train_features[1] # train_features[2]

----------------------------------------------------------------------------
(* C5 - a store is never open for writing and for reading at once *)

\* C5: no store is WriteOpen and ReadOpen at the same time; a store that is
\* open for reading was written by a write_db call that has returned and is
\* closed for writing; every put happens while the store of its call is
\* open for writing; and once a batch was read, no further put happens and
\* no file changes.
C5_WriteThenRead ==
    /\ [](\A p \in Paths :
             /\ ~(WriteOpen(p) /\ ReadOpen(p))
             /\ ReadOpen(p) => (CallOf(p) \in returned /\ ~WriteOpen(p)))
    /\ [][ /\ (putlog' # putlog) => (WriteOpen(PathOf(call)) /\ db = PathOf(call))
           /\ (reads > 0) => (putlog' = putlog /\ fs' = fs) ]_vars

\* the training store has been filled, closed and read twice
C5_Witness ==
    /\ ReadOpen(TrainPath)
    /\ reads = 2
    /\ Len(PutsOf("train")) = cfg.train
    /\ Len(fs[TrainPath].data) = cfg.train

----------------------------------------------------------------------------
(* C6 - write_db releases the transaction and the store before returning *)

\* C6: once a write_db call has returned normally its store is closed, no
\* transaction of that call is open, and the file holds the N records of the
\* call, committed in order, which is what a reader opened right then reads.
C6_ReleasedOnReturn ==
    \A c \in returned :
        /\ ~WriteOpen(PathOf(c))
        /\ (transaction.open => call # c)
        /\ (db # NoDb => db # PathOf(c))
        /\ fs[PathOf(c)].exists
        /\ Len(fs[PathOf(c)].data) = Len(FeaturesOf(c))
        /\ \A k \in 1..Len(FeaturesOf(c)) :
              DecodeExample(fs[PathOf(c)].data[k].value) =
                  [ok |-> TRUE, features |-> FeaturesOf(c)[k],
                   label |-> LabelsOf(c)[k]]
        /\ ReadRecords(fs[PathOf(c)].data, 0, Len(FeaturesOf(c))).ok

\* write_db("minidb", "iris_train.minidb", ...) has just returned
C6_Witness ==
    /\ returned = {"train"}
    /\ pc = "write_db"
    /\ Len(fs[TrainPath].data) = cfg.train
    /\ cfg.train > 1

----------------------------------------------------------------------------
(* C7 - the reader cycles through the store *)

\* C7: the k-th record the reader returns is record (k-1) mod N of the
\* store: successive batches do not overlap until all N records were
\* returned once, the record after the last is the first again, and no run
\* of the reader fails, at the end of the store or elsewhere.
C7_CircularStream ==
    (pc = "run_net" \/ batches # <<>>) =>
        LET n == Len(fs[TrainPath].data)
        IN  /\ error = ""
            /\ pc = "run_net"
            /\ Len(batches) = reads
            /\ Len(StreamPos) = reads * cfg.batch
            /\ \A k \in 1..Len(StreamPos) : StreamPos[k] = (k - 1) % n
            /\ \A k \in 1..Len(Stream) :
                  Stream[k] = Written("train")[((k - 1) % n) + 1]

\* the reader has run past the end of the store and started over
C7_Witness ==
    /\ reads >= 3
    /\ Len(StreamPos) > Len(fs[TrainPath].data) + 1
    /\ StreamPos[Len(fs[TrainPath].data)] = Len(fs[TrainPath].data) - 1
    /\ StreamPos[Len(fs[TrainPath].data) + 1] = 0

----------------------------------------------------------------------------
(* C8 - 100 examples read in batches of 16 *)

----------------------------------------------------------------------------
(* C9 - every batch is B aligned rows, a contiguous run of the store *)

\* C9: every batch has exactly B rows of X and B entries of Y, row j and
\* entry j are the features and the label of one stored record, and the
\* records of a batch follow each other in store order, the first record
\* following the last when the batch crosses the end of the store.
C9_BatchShape ==
    /\ \A b \in 1..Len(batches) :
          LET n == Len(fs[TrainPath].data)
              bt == batches[b]
          IN  /\ Len(bt.X) = cfg.batch
              /\ Len(bt.Y) = cfg.batch
              /\ Len(bt.pos) = cfg.batch
              /\ \A j \in 1..Len(bt.pos) :
                    /\ bt.pos[j] \in 0..(n - 1)
                    /\ DecodeExample(fs[TrainPath].data[bt.pos[j] + 1].value) =
                           [ok |-> TRUE, features |-> bt.X[j], label |-> bt.Y[j]]
              /\ \A j \in 1..(Len(bt.pos) - 1) :
                    bt.pos[j + 1] = (bt.pos[j] + 1) % n
    /\ batches # <<>> => (X = batches[Len(batches)].X /\ Y = batches[Len(batches)].Y)

\* a batch that crosses the end of a store whose records are not all equal
C9_Witness ==
    \E b \in 1..Len(batches) :
        \E j \in 1..(Len(batches[b].pos) - 1) :
            /\ batches[b].pos[j] = Len(fs[TrainPath].data) - 1
            /\ batches[b].pos[j + 1] = 0
            /\ batches[b].Y[j] # batches[b].Y[j + 1]

----------------------------------------------------------------------------
(* C10 - a store that cannot be opened for writing *)

\* C10: when create_db fails, write_db ends with the exception before any
\* put of that call: the run stops there, the call has no put and does not
\* return, its file holds no record; and no put or return ever belongs to a
\* call whose path cannot be written.
C10_OpenFailureIsFatal ==
    /\ error = "create_db" =>
          /\ pc = "raised"
          /\ ~fs[PathOf(call)].writable
          /\ PutsOf(call) = <<>>
          /\ call \notin returned
          /\ fs[PathOf(call)].data = <<>>
          /\ ~WriteOpen(PathOf(call))
    /\ \A p \in Paths :
          ~fs[p].writable =>
              /\ PutsOf(CallOf(p)) = <<>>
              /\ CallOf(p) \notin returned
              /\ ~WriteOpen(p)
              /\ ((AfterSplit /\ pc # "write_db" /\ call = CallOf(p))
                     => error = "create_db")

\* the second call of write_db fails on its path after the first succeeded
C10_Witness ==
    /\ error = "create_db"
    /\ call = "test"
    /\ returned = {"train"}
    /\ Len(PutsOf("train")) = cfg.train

----------------------------------------------------------------------------
(* C11 - a class name outside the lookup table *)

HasUnknownLabel == \E r \in 1..Len(raw_data) : raw_data[r].name \notin DOMAIN LabelTable

\* C11: when some row carries a class name that is not one of the three,
\* the load fails with the KeyError: the notebook stops there, no labels
\* array exists (so no row was dropped and none got another class index),
\* and nothing downstream of the load is produced.
C11_UnknownLabelIsFatal ==
    (HasUnknownLabel /\ pc # "load") =>
        /\ pc = "raised"
        /\ error = "KeyError"
        /\ labels = <<>>
        /\ train_labels = <<>> /\ test_labels = <<>>
        /\ putlog = <<>>

\* the load of a dataset whose last row has an unknown class name has
\* failed, after the feature matrix was built
C11_Witness ==
    /\ HasUnknownLabel
    /\ pc = "raised"
    /\ error = "KeyError"
    /\ Len(features) = Len(raw_data)

----------------------------------------------------------------------------
(* C13 - two tensors per record, features first *)

\* the parsed record p holds exactly the float feature tensor of
\* feature_row followed by the integer label tensor of label
IsFeatureThenLabel(p, feature_row, label) ==
    /\ p.ok
    /\ Len(p.protos) = 2
    /\ p.protos[1].data_type = "FLOAT"
    /\ p.protos[1].dims = <<Len(feature_row)>>
    /\ p.protos[1].float_data = feature_row
    /\ p.protos[1].int32_data = <<>>
    /\ p.protos[2].data_type = "INT32"
    /\ p.protos[2].dims = <<>>
    /\ p.protos[2].int32_data = <<label>>
    /\ p.protos[2].float_data = <<>>

\* C13: the value of every put of write_db, and so every record of a store,
\* holds exactly two tensors: first the float tensor with the features of
\* example i, second the integer tensor with the label of the same example.
C13_FeaturesThenLabel ==
    /\ \A k \in 1..Len(putlog) :
          IsFeatureThenLabel(ParseFromString(putlog[k].value),
                             FeaturesOf(putlog[k].call)[putlog[k].i + 1],
                             LabelsOf(putlog[k].call)[putlog[k].i + 1])
    /\ \A c \in returned :
          \A k \in 1..Len(fs[PathOf(c)].data) :
              IsFeatureThenLabel(ParseFromString(fs[PathOf(c)].data[k].value),
                                 FeaturesOf(c)[k], LabelsOf(c)[k])

\* both stores are written, of a dataset with different rows
C13_Witness ==
    /\ returned = {"train", "test"}
    /\ Len(putlog) = cfg.total
    /\ train_features[1] # train_features[2]
    /\ train_labels[1] # train_labels[2]

----------------------------------------------------------------------------
(* C14 - the split keeps each label with its features *)

\* the features and the label of the original row r (1-based) of the file
FeaturesOfRow(r) == Columns(raw_data[r].f, usecols)
LabelOfRow(r) == label_converter(raw_data[r].name).value

\* the pair (f, l) is the features and the label of one and the same row
SameOriginalRow(f, l, r) == f = FeaturesOfRow(r) /\ l = LabelOfRow(r)

\* C14: after the permutation, features[j] and labels[j] are the features
\* and the label of the same original row, for every position j; the same
\* holds at every position of the training and of the testing subset.
C14_AlignmentPreserved ==
    AfterSplit =>
        /\ Len(features) = Len(labels)
        /\ Len(train_features) = Len(train_labels)
        /\ Len(test_features) = Len(test_labels)
        /\ \A j \in 1..Len(features) :
              SameOriginalRow(features[j], labels[j], random_index[j] + 1)
        /\ \A j \in 1..Len(train_features) :
              SameOriginalRow(train_features[j], train_labels[j],
                              random_index[j] + 1)
        /\ \A j \in 1..Len(test_features) :
              SameOriginalRow(test_features[j], test_labels[j],
                              random_index[cfg.train + j] + 1)

\* a permutation that moves a row to a position whose file label differs
C14_Witness ==
    /\ AfterSplit
    /\ \E j \in 1..Len(labels) :
          /\ random_index[j] + 1 # j
          /\ labels[j] # LabelOfRow(j)
    /\ test_labels # <<>>
    /\ test_labels[1] # LabelOfRow(cfg.train + 1)

----------------------------------------------------------------------------
(* C15 - write_db puts the examples in order, each exactly once *)

\* the k-th put of call c carries the record of example k - 1
PutInOrder(c, k) ==
    /\ PutsOf(c)[k].i = k - 1
    /\ DecodeExample(PutsOf(c)[k].value) =
           [ok |-> TRUE, features |-> Written(c)[k].features,
            label |-> Written(c)[k].label]

\* C15: write_db performs exactly N = features.shape[0] puts, the k-th put
\* carries the record of example k - 1, and no example is put twice or
\* skipped; while the loop runs the puts so far are examples 0 .. i - 1.
C15_PutsInExampleOrder ==
    \A c \in {"train", "test"} :
        /\ Len(PutsOf(c)) <= Len(Written(c))
        /\ \A k \in 1..Len(PutsOf(c)) : PutInOrder(c, k)
        /\ (c \in returned => Len(PutsOf(c)) = Len(Written(c)))
        /\ (c = call /\ pc = "write_loop" => Len(PutsOf(c)) = i)
        /\ (c = call /\ pc = "write_loop" =>
               transaction.pending =
                   [k \in 1..i |-> [key |-> PutsOf(c)[k].key,
                                    value |-> PutsOf(c)[k].value]])

\* the training call has returned after more than two puts of examples
\* that are not all the same
C15_Witness ==
    /\ "train" \in returned
    /\ Len(PutsOf("train")) = cfg.train
    /\ cfg.train > 2
    /\ PutsOf("train")[1].value # PutsOf("train")[2].value

----------------------------------------------------------------------------
(* C16 - a value that cannot be decoded fails the read *)

\* the store positions the next run of the net reads: batch_size records
\* from the cursor on, the first again after the last
NextWindow ==
    LET len == Len(fs[TrainPath].data)
        cur == IF dbreader.open THEN dbreader.cursor ELSE 0
    IN  IF len = 0 THEN {}
        ELSE { (cur + k) % len : k \in 0..(batch_size - 1) }

\* the parsed buffer p is a float tensor followed by a one-element integer
\* tensor
IsExample(p) ==
    /\ p.ok
    /\ Len(p.protos) = 2
    /\ p.protos[1].data_type = "FLOAT"
    /\ p.protos[2].data_type = "INT32"
    /\ Len(p.protos[2].int32_data) = 1

\* the value does not parse, or parses to something that is no example
Undecodable(value) == ~IsExample(ParseFromString(value))

\* a record the next run reads holds a value that cannot be decoded
WindowUndecodable ==
    \E q \in NextWindow : Undecodable(fs[TrainPath].data[q + 1].value)

\* a step of workspace.RunNet
IsRunNetStep == pc = "run_net" /\ fs' = fs

\* C16: a run of the net that meets a stored value that cannot be decoded
\* fails: the cell raises, no batch is returned (neither a zero-filled one
\* nor the blobs of the read before), and every batch that is returned is
\* made, row by row, of the examples written at its positions.
C16_UndecodableFailsRead ==
    [][ IsRunNetStep =>
          /\ WindowUndecodable =>
                /\ pc' = "raised"
                /\ error' = "run_net"
                /\ batches' = batches
                /\ reads' = reads
          /\ batches' # batches =>
                /\ ~WindowUndecodable
                /\ \A j \in 1..Len(X') :
                      Written("train")[batches'[Len(batches')].pos[j] + 1]
                      = [features |-> X'[j], label |-> Y'[j]] ]_vars

\* a read failed on a damaged record after an earlier read had succeeded
C16_Witness ==
    /\ pc = "raised"
    /\ error = "run_net"
    /\ reads > 0
    /\ X # <<>>
    /\ \E k \in 1..Len(fs[TrainPath].data) :
          Undecodable(fs[TrainPath].data[k].value)

----------------------------------------------------------------------------
(* C17 - the store handle when write_db is left by an exception *)

\* control is inside write_db: between create_db and the return
InWriteDb == pc \in {"write_loop", "write_del_db"}

\* C17: the store handle acquired by write_db is released on every exit
\* path, the one where an iteration fails included: whenever control is
\* outside write_db, no store is open for writing.
C17_ReleasedOnEveryExit ==
    ~InWriteDb => \A p \in Paths : ~WriteOpen(p)

----------------------------------------------------------------------------
(* C18 - one transaction per write_db call, released before the store *)

\* C18: in write_db every put happens inside the one transaction opened
\* with the store, the store is never closed while its transaction is open,
\* the transaction is released strictly before the store handle, and no put
\* happens after the transaction is released.
C18_TransactionInsideStore ==
    /\ [](transaction.open =>
             /\ db = PathOf(call)
             /\ WriteOpen(db)
             /\ Len(transaction.pending) = Len(PutsOf(call)))
    /\ [][ /\ (putlog' # putlog) => (transaction.open /\ transaction'.open)
           /\ \A p \in Paths :
                 (WriteOpen(p) /\ ~WriteOpen(p)') =>
                     (~transaction.open /\ ~transaction'.open)
           /\ (transaction.open /\ ~transaction'.open) =>
                 (WriteOpen(db) /\ WriteOpen(db)') ]_vars

\* the training call is between del transaction and del db, after its puts
C18_Witness ==
    /\ pc = "write_del_db"
    /\ call = "train"
    /\ ~transaction.open
    /\ WriteOpen(TrainPath)
    /\ Len(PutsOf("train")) = cfg.train
    /\ Len(fs[TrainPath].data) = cfg.train

----------------------------------------------------------------------------
(* C19 - reading leaves the store as the writer closed it *)

\* the records write_db call c committed: key and value of its puts, in order
RecordsOf(c) ==
    [k \in 1..Len(PutsOf(c)) |-> [key |-> PutsOf(c)[k].key,
                                  value |-> PutsOf(c)[k].value]]

\* C19: batch reads never change a store: after any number of runs of the
\* net every written store holds the same N records in the same order as
\* when write_db closed it, and a run that returns a batch changes no file,
\* no handle and no put: it moves the reader's position by batch_size around
\* the store and sets the blobs.
C19_ReadsLeaveStore ==
    /\ [](\A c \in returned :
             /\ fs[PathOf(c)].data = RecordsOf(c)
             /\ Len(fs[PathOf(c)].data) = Len(Written(c)))
    /\ [][ (reads' # reads) =>
              /\ fs' = fs
              /\ wopen' = wopen
              /\ putlog' = putlog
              /\ returned' = returned
              /\ dbreader'.path = TrainPath
              /\ dbreader'.cursor =
                    ((IF dbreader.open THEN dbreader.cursor ELSE 0) + batch_size)
                        % Len(fs[TrainPath].data) ]_vars

\* the training store after three reads that went around it
C19_Witness ==
    /\ reads = 3
    /\ Len(StreamPos) > cfg.train
    /\ fs[TrainPath].data = RecordsOf("train")
    /\ Len(fs[TrainPath].data) = cfg.train

----------------------------------------------------------------------------
(* C20 - four features per example at every stage *)

\* every row of the array a has FeatureCount elements
FourWide(a) == \A r \in 1..Len(a) : Len(a[r]) = FeatureCount

\* the feature tensor of a serialized record has shape (FeatureCount,) and
\* as many values
FourWideRecord(value) ==
    LET p == ParseFromString(value)
    IN  /\ p.ok
        /\ Len(p.protos) >= 1
        /\ p.protos[1].dims = <<FeatureCount>>
        /\ Len(p.protos[1].float_data) = FeatureCount

\* C20: every row of the loaded features, every row of the training and of
\* the testing subset, the feature tensor of every record write_db puts and
\* stores, and every row of every batch the reader returns has exactly 4
\* elements.
C20_FourFeatures ==
    /\ FourWide(features)
    /\ FourWide(train_features)
    /\ FourWide(test_features)
    /\ \A k \in 1..Len(putlog) : FourWideRecord(putlog[k].value)
    /\ \A c \in returned :
          \A k \in 1..Len(fs[PathOf(c)].data) :
              FourWideRecord(fs[PathOf(c)].data[k].value)
    /\ FourWide(X)
    /\ \A b \in 1..Len(batches) : FourWide(batches[b].X)

\* loaded, split, both stores written and two batches read
C20_Witness ==
    /\ Len(features) = cfg.total
    /\ Len(train_features) = cfg.train
    /\ Len(test_features) = cfg.total - cfg.train
    /\ returned = {"train", "test"}
    /\ Len(putlog) = cfg.total
    /\ Len(batches) = 2
    /\ Len(X) = batch_size

====
